---------------------------- MODULE Spec2Model ----------------------------
(***************************************************************************)
(* Model of file_counter.py: a directory walk that inventories PDF, DGN    *)
(* and DWG files, scores each one, and writes a spreadsheet report.        *)
(*                                                                         *)
(* Number representation.  The program computes with Python floats; the    *)
(* model computes the same quantities exactly:                             *)
(*   - a4_pages and points are kept in hundredths (3.01 pages is 301,      *)
(*     10.03 points is 1003); page_count is a plain integer;               *)
(*   - lengths derived from a page box are kept in half-millimetres and    *)
(*     areas in quarter square millimetres;                                *)
(*   - round(x, 2) and the ".2f" format are rounding to the nearest        *)
(*     hundredth, ties to even, of the exact quotient.                     *)
(* Binary floating-point error (far below one hundredth) is not modelled.  *)
(***************************************************************************)
EXTENDS Integers, Sequences, FiniteSets

VARIABLES
    pc,              \* position of the run in the script / main()
    target_isdir,    \* "unchecked", or the answer of os.path.isdir(target_dir), line 308
    exitCode,        \* <<>> while running, <<c>> once the process ended with code c
    walk_root,       \* the directory os.walk is currently yielding (line 116)
    walked,          \* every file os.walk has yielded so far, with its directory
    file_info_list,  \* scan_directory's result list (line 111)
    report,          \* <<>> or <<workbook>>: the file written by wb.save (line 283)
    report_calls,    \* number of calls of create_excel_report
    viewer,          \* outcome of the auto-open step (lines 289-297)
    call             \* a single application of a scoring function (SpecScorer)

vars == <<pc, target_isdir, exitCode, walk_root, walked, file_info_list, report, report_calls, viewer, call>>

----------------------------------------------------------------------------
(* Bounds of the model *)

MaxFiles == 2

MaxPages == 3

MaxA4 == 1700

----------------------------------------------------------------------------
(* Arithmetic helpers *)

Cents(x) == 100 * x

Abs(x) == IF x < 0 THEN -x ELSE x

\* n / d rounded to the nearest integer, ties to even (n >= 0, d > 0):
\* Python's round() and its ".2f" format applied to an exact value.
RoundHalfEven(n, d) ==
    LET q == n \div d
        r == n % d
    IN  IF 2 * r < d THEN q
        ELSE IF 2 * r > d THEN q + 1
        ELSE IF q % 2 = 0 THEN q ELSE q + 1

----------------------------------------------------------------------------
(* Module constants, lines 27-30 *)

A4_WIDTH_MM == 210

A4_HEIGHT_MM == 297

A4_AREA_MM2 == A4_WIDTH_MM * A4_HEIGHT_MM

----------------------------------------------------------------------------
(* get_file_size, lines 33-40.  The readable string is <<number shown in    *)
(* hundredths, unit>>; the second component is the exact quotient           *)
(* <<numerator, denominator>>.                                              *)

get_file_size(size_bytes) ==
    IF size_bytes < 1024
    THEN <<[shown |-> Cents(size_bytes), unit |-> "B"], <<size_bytes, 1>>>>
    ELSE IF size_bytes < 1024 * 1024
    THEN <<[shown |-> RoundHalfEven(Cents(size_bytes), 1024), unit |-> "K"],
           <<size_bytes, 1024>>>>
    ELSE <<[shown |-> RoundHalfEven(Cents(size_bytes), 1024 * 1024), unit |-> "M"],
           <<size_bytes, 1024 * 1024>>>>

----------------------------------------------------------------------------
(* PDF documents as pypdf presents them.  A page is its mediabox            *)
(* <<width, height>>, in units of 540/127 pt (= 1.5 mm), the coarsest unit  *)
(* in which A5, A4 and A3 are whole numbers.  A document that cannot be     *)
(* read (open() or pypdf raising at any point) has readable = FALSE.        *)

BoxA5 == <<99, 140>>
BoxA4 == <<140, 198>>
BoxA4Landscape == <<198, 140>>
BoxA3 == <<198, 280>>
BoxOdd == <<140, 199>>

PageBoxes == {BoxA5, BoxA4, BoxA4Landscape, BoxA3, BoxOdd}

SeqsUpTo(S, n) == UNION {[1..k -> S] : k \in 0..n}

Min(a, b) == IF a <= b THEN a ELSE b

Max(a, b) == IF a >= b THEN a ELSE b

\* lines 62-63: pt * 25.4 / 72, here from the 540/127 pt unit to half-millimetres
PtToHalfMm(len_pt) == 3 * len_pt

\* lines 57-70: one page's area, in quarter square millimetres
PageArea(box) ==
    LET width_mm == PtToHalfMm(box[1])
        height_mm == PtToHalfMm(box[2])
        page_width == Min(width_mm, height_mm)
        page_height == Max(width_mm, height_mm)
    IN  page_width * page_height

\* lines 51-74: the loop's accumulation; a4_pages * (4 * A4_AREA_MM2) exactly
RECURSIVE AreaSum(_)
AreaSum(pages) ==
    IF pages = <<>> THEN 0
    ELSE AreaSum(SubSeq(pages, 1, Len(pages) - 1)) + PageArea(pages[Len(pages)])

\* Variant of get_pdf_a4_pages that rounds every page's ratio before adding it
RECURSIVE RoundedRatioSum(_)
RoundedRatioSum(pages) ==
    IF pages = <<>> THEN 0
    ELSE RoundedRatioSum(Tail(pages)) + RoundHalfEven(Cents(PageArea(pages[1])), 4 * A4_AREA_MM2)

get_pdf_a4_pages_round_each(doc) ==
    IF doc.readable
    THEN <<Len(doc.pages), RoundedRatioSum(doc.pages)>>
    ELSE <<0, 0>>

\* lines 43-79: <<actual page count, A4 pages in hundredths>>
get_pdf_a4_pages(doc) ==
    IF doc.readable
    THEN <<Len(doc.pages), RoundHalfEven(Cents(AreaSum(doc.pages)), 4 * A4_AREA_MM2)>>
    ELSE <<0, 0>>

----------------------------------------------------------------------------
(* Points, lines 82-106; arguments and results in hundredths *)

\* Variant of calculate_pdf_points that charges only whole extra pages
calculate_pdf_points_whole_pages(a4_page_count) ==
    IF a4_page_count <= Cents(3)
    THEN Cents(10)
    ELSE Cents(10) + Cents((a4_page_count - Cents(3)) \div 100) * 3

\* Variant of calculate_pdf_points that rounds the result to a whole number of points
calculate_pdf_points_int(a4_page_count) ==
    IF a4_page_count <= Cents(3)
    THEN Cents(10)
    ELSE Cents(RoundHalfEven(Cents(10) + (a4_page_count - Cents(3)) * 3, 100))

calculate_pdf_points(a4_page_count) ==
    LET base_points == 10
        base_pages == 3
    IN  IF a4_page_count <= Cents(base_pages)
        THEN Cents(base_points)
        ELSE LET extra_pages == a4_page_count - Cents(base_pages)
                 extra_points == extra_pages * 3
             IN  Cents(base_points) + extra_points

\* Variant of calculate_drawing_points that forgets the three pages the base covers
calculate_drawing_points_no_base == Cents(10 + 16 * 3)

calculate_drawing_points ==
    LET base_points == 10
        extra_pages == 16 - 3
    IN  Cents(base_points + extra_pages * 3)

----------------------------------------------------------------------------
(* SpecScorer: the two scoring functions applied to inputs drawn from       *)
(* bounded sets.                                                            *)

NoCall == [fn |-> "none"]

ScenarioDocs ==
    { [readable |-> TRUE, pages |-> [i \in 1..20 |-> BoxA3]],
      [readable |-> TRUE, pages |-> [i \in 1..16 |-> BoxA4]] }

PdfDocs ==
    {[readable |-> r, pages |-> p] : r \in BOOLEAN, p \in SeqsUpTo(PageBoxes, MaxPages)}
        \cup ScenarioDocs

PointsCalls == {[fn |-> "calculate_pdf_points", arg |-> p, done |-> FALSE, ret |-> 0] : p \in 0..MaxA4}

PdfCalls == {[fn |-> "get_pdf_a4_pages", arg |-> d, done |-> FALSE, ret |-> <<0, 0>>] : d \in PdfDocs}

Idle ==
    /\ pc = "idle"
    /\ target_isdir = "unchecked"
    /\ exitCode = <<>>
    /\ walk_root = "root"
    /\ walked = <<>>
    /\ file_info_list = <<>>
    /\ report = <<>>
    /\ report_calls = 0
    /\ viewer = "none"

InitScorer ==
    /\ Idle
    /\ call \in PointsCalls \cup PdfCalls

CallPoints ==
    /\ call.fn = "calculate_pdf_points"
    /\ ~call.done
    /\ call' = [call EXCEPT !.done = TRUE, !.ret = calculate_pdf_points(call.arg)]
    /\ UNCHANGED <<pc, target_isdir, exitCode, walk_root, walked, file_info_list, report, report_calls, viewer>>

CallPdf ==
    /\ call.fn = "get_pdf_a4_pages"
    /\ ~call.done
    /\ call' = [call EXCEPT !.done = TRUE, !.ret = get_pdf_a4_pages(call.arg)]
    /\ UNCHANGED <<pc, target_isdir, exitCode, walk_root, walked, file_info_list, report, report_calls, viewer>>

NextScorer == CallPoints \/ CallPdf

SpecScorer == InitScorer /\ [][NextScorer]_vars

----------------------------------------------------------------------------
(* The directory tree as os.walk and os.stat present it.  A file is its     *)
(* name's suffix, what os.stat answers for it, and (for a PDF) what pypdf   *)
(* reads from it.  Files that are never stat'ed or parsed carry a fixed     *)
(* stat and document.                                                       *)

Suffixes == {".pdf", ".PDF", ".dwg", ".DGN", ".txt", ".docx"}

\* Variant of Lower that compares suffixes case-sensitively
LowerIdentity(s) == s

\* str.lower() on a suffix, line 119
Lower(s) ==
    CASE s = ".PDF" -> ".pdf"
      [] s = ".DGN" -> ".dgn"
      [] OTHER -> s

\* ext.upper().replace('.', ''), line 129
UpperNoDot(ext) ==
    CASE ext = ".pdf" -> "PDF"
      [] ext = ".dgn" -> "DGN"
      [] ext = ".dwg" -> "DWG"
      [] ext = ".txt" -> "TXT"
      [] OTHER -> "DOCX"

\* line 112
extensions == {".pdf", ".dgn", ".dwg"}

FileSizes == {512, 1572864}

StatOk(n) == [ok |-> TRUE, st_size |-> n]

StatError == [ok |-> FALSE, st_size |-> 0]

NoDoc == [readable |-> FALSE, pages |-> <<>>]

ScanDocs ==
    { NoDoc,
      [readable |-> TRUE, pages |-> <<BoxA4>>],
      [readable |-> TRUE, pages |-> <<BoxA3, BoxA3>>],
      [readable |-> TRUE, pages |-> <<BoxA3, BoxOdd>>] }

Files ==
    {[suffix |-> s, stat |-> StatOk(512), doc |-> NoDoc] :
        s \in {x \in Suffixes : Lower(x) \notin extensions}}
    \cup
    {[suffix |-> s, stat |-> st, doc |-> NoDoc] :
        s \in {x \in Suffixes : Lower(x) \in {".dwg", ".dgn"}},
        st \in {StatOk(n) : n \in FileSizes} \cup {StatError}}
    \cup
    {[suffix |-> s, stat |-> StatError, doc |-> NoDoc] :
        s \in {x \in Suffixes : Lower(x) = ".pdf"}}
    \cup
    {[suffix |-> s, stat |-> StatOk(n), doc |-> d] :
        s \in {x \in Suffixes : Lower(x) = ".pdf"}, n \in FileSizes, d \in ScanDocs}

\* The i-th file yielded by the walk: its name and its path (lines 118, 127-128)
FileName(i, f) == <<i, f.suffix>>

FilePath(dir, i, f) == <<dir, FileName(i, f)>>

----------------------------------------------------------------------------
(* scan_directory's loop body for one matching file, lines 122-146 *)

FileInfo(dir, i, f) ==
    LET ext == Lower(f.suffix)
        size_bytes == f.stat.st_size
        sized == get_file_size(size_bytes)
    IN  IF ext = ".pdf"
        THEN LET pdf == get_pdf_a4_pages(f.doc)
             IN  [path |-> FilePath(dir, i, f),
                  filename |-> FileName(i, f),
                  type |-> UpperNoDot(ext),
                  size_readable |-> sized[1],
                  size_bytes |-> size_bytes,
                  size_kb |-> sized[2],
                  page_count |-> pdf[1],
                  a4_pages |-> pdf[2],
                  points |-> calculate_pdf_points(pdf[2])]
        ELSE [path |-> FilePath(dir, i, f),
              filename |-> FileName(i, f),
              type |-> UpperNoDot(ext),
              size_readable |-> sized[1],
              size_bytes |-> size_bytes,
              size_kb |-> sized[2],
              page_count |-> 16,
              points |-> calculate_drawing_points]

----------------------------------------------------------------------------
(* create_excel_report, lines 151-283: what is written to the workbook *)

RECURSIVE SumSeq(_)
SumSeq(s) == IF s = <<>> THEN 0 ELSE s[1] + SumSeq(Tail(s))

\* info.get('a4_pages', info.get('page_count', ...)), lines 196 and 217, in hundredths
A4OrPageCount(info) ==
    IF "a4_pages" \in DOMAIN info THEN info.a4_pages ELSE Cents(info.page_count)

\* "{x / (1024 * 1024):.2f}", lines 246 and 261: megabytes in hundredths
MbShown(size_bytes) == RoundHalfEven(Cents(size_bytes), 1024 * 1024)

OfType(list, t) == SelectSeq(list, LAMBDA f : f.type = t)

\* lines 211-218 and 240-252: one per-type row
TypeRow(list, t) ==
    LET fs == OfType(list, t)
        pages == SumSeq([i \in 1..Len(fs) |-> A4OrPageCount(fs[i])])
    IN  [label |-> t,
         count |-> Len(fs),
         size_mb |-> MbShown(SumSeq([i \in 1..Len(fs) |-> fs[i].size_bytes])),
         pages |-> IF pages # 0 THEN <<pages>> ELSE <<>>,
         points |-> SumSeq([i \in 1..Len(fs) |-> fs[i].points])]

\* Variant of TotalPoints that adds up the page column instead of the points
TotalPointsOfPages(list) == SumSeq([i \in 1..Len(list) |-> A4OrPageCount(list[i])])

\* line 208
TotalPoints(list) == SumSeq([i \in 1..Len(list) |-> list[i].points])

\* line 206
TotalSizeBytes(list) == SumSeq([i \in 1..Len(list) |-> list[i].size_bytes])

Workbook(list) ==
    LET present == SelectSeq(<<"PDF", "DGN", "DWG">>, LAMBDA t : OfType(list, t) # <<>>)
        total_points == TotalPoints(list)
    IN  [rows |-> [i \in 1..Len(list) |->
                     [path |-> list[i].path,
                      filename |-> list[i].filename,
                      type |-> list[i].type,
                      size |-> list[i].size_readable,
                      page_count |-> list[i].page_count,
                      a4_pages |-> A4OrPageCount(list[i]),
                      points |-> list[i].points]],
         stats |-> [k \in 1..Len(present) |-> TypeRow(list, present[k])],
         total |-> [count |-> Len(list),
                    size_mb |-> MbShown(TotalSizeBytes(list)),
                    pages |-> SumSeq([i \in 1..Len(list) |-> A4OrPageCount(list[i])]),
                    points |-> total_points],
         summary |-> total_points]

----------------------------------------------------------------------------
(* The run: module import, main(), scan_directory, create_excel_report *)

Init ==
    /\ pc = "import"
    /\ target_isdir = "unchecked"
    /\ exitCode = <<>>
    /\ walk_root = "root"
    /\ walked = <<>>
    /\ file_info_list = <<>>
    /\ report = <<>>
    /\ report_calls = 0
    /\ viewer = "none"
    /\ call = NoCall

Exit(code) ==
    /\ pc' = "exit"
    /\ exitCode' = <<code>>

\* lines 12-24: a missing dependency ends the process with code 1
ImportDeps ==
    /\ pc = "import"
    /\ \E available \in BOOLEAN :
         IF available
         THEN pc' = "main" /\ UNCHANGED exitCode
         ELSE Exit(1)
    /\ UNCHANGED <<target_isdir, walk_root, walked, file_info_list, report, report_calls, viewer, call>>

\* Variant of MainCheckDir without the sys.exit(1) of line 310
MainCheckDirNoExit ==
    /\ pc = "main"
    /\ \E isdir \in BOOLEAN :
         /\ target_isdir' = IF isdir THEN "yes" ELSE "no"
         /\ pc' = "walk"
         /\ UNCHANGED exitCode
    /\ UNCHANGED <<walk_root, walked, file_info_list, report, report_calls, viewer, call>>

\* lines 300-315: the directory check, then the call of scan_directory
MainCheckDir ==
    /\ pc = "main"
    /\ \E isdir \in BOOLEAN :
         IF isdir
         THEN target_isdir' = "yes" /\ pc' = "walk" /\ UNCHANGED exitCode
         ELSE target_isdir' = "no" /\ Exit(1)
    /\ UNCHANGED <<walk_root, walked, file_info_list, report, report_calls, viewer, call>>

\* line 116: os.walk moves on from the root to a subdirectory
WalkSubdir ==
    /\ pc = "walk"
    /\ walk_root = "root"
    /\ walk_root' = "root/sub"
    /\ UNCHANGED <<pc, target_isdir, exitCode, walked, file_info_list, report, report_calls, viewer, call>>

\* Variant of ScanStep in which a PDF that cannot be read aborts the scan
\* (get_pdf_a4_pages without its try/except)
ScanStepNoCatch(f) ==
    LET i == Len(walked) + 1
    IN  /\ walked' = Append(walked, [dir |-> walk_root, file |-> f])
        /\ IF Lower(f.suffix) \notin extensions
           THEN UNCHANGED <<pc, exitCode, file_info_list>>
           ELSE IF ~f.stat.ok \/ (Lower(f.suffix) = ".pdf" /\ ~f.doc.readable)
           THEN Exit(1) /\ UNCHANGED file_info_list
           ELSE /\ file_info_list' = Append(file_info_list, FileInfo(walk_root, i, f))
                /\ UNCHANGED <<pc, exitCode>>

\* lines 117-146: one file of the current directory
ScanStep(f) ==
    LET i == Len(walked) + 1
    IN  /\ walked' = Append(walked, [dir |-> walk_root, file |-> f])
        /\ IF Lower(f.suffix) \notin extensions
           THEN UNCHANGED <<pc, exitCode, file_info_list>>
           ELSE IF ~f.stat.ok
           THEN Exit(1) /\ UNCHANGED file_info_list
           ELSE /\ file_info_list' = Append(file_info_list, FileInfo(walk_root, i, f))
                /\ UNCHANGED <<pc, exitCode>>

ScanFile ==
    /\ pc = "walk"
    /\ Len(walked) < MaxFiles
    /\ \E f \in Files : ScanStep(f)
    /\ UNCHANGED <<target_isdir, walk_root, report, report_calls, viewer, call>>

\* line 148 and lines 315-316: the walk is exhausted and the list returned to main
ScanReturn ==
    /\ pc = "walk"
    /\ pc' = "scanned"
    /\ UNCHANGED <<target_isdir, exitCode, walk_root, walked, file_info_list, report, report_calls, viewer, call>>

\* lines 318-320
MainNoFiles ==
    /\ pc = "scanned"
    /\ file_info_list = <<>>
    /\ Exit(0)
    /\ UNCHANGED <<target_isdir, walk_root, walked, file_info_list, report, report_calls, viewer, call>>

\* lines 151-297, then line 333: the workbook is built and saved (a failing save
\* propagates out of main), the viewer is launched best-effort, and main returns
WriteReport ==
    /\ report_calls' = report_calls + 1
    /\ \E saved \in BOOLEAN :
         IF saved
         THEN /\ report' = <<Workbook(file_info_list)>>
              /\ \E opened \in BOOLEAN : viewer' = IF opened THEN "opened" ELSE "failed"
              /\ Exit(0)
         ELSE /\ Exit(1)
              /\ UNCHANGED <<report, viewer>>
    /\ UNCHANGED <<target_isdir, walk_root, walked, file_info_list, call>>

\* Variant of CreateExcelReport without the empty-list return of lines 318-320
CreateExcelReportAlways ==
    /\ pc = "scanned"
    /\ WriteReport

\* Variant of CreateExcelReport that does not wait for the scan to return
CreateExcelReportEarly ==
    /\ pc \in {"walk", "scanned"}
    /\ file_info_list # <<>>
    /\ WriteReport

\* lines 318 and 322-333: main calls create_excel_report when the list is not empty
CreateExcelReport ==
    /\ pc = "scanned"
    /\ file_info_list # <<>>
    /\ WriteReport

Next ==
    \/ ImportDeps
    \/ MainCheckDir
    \/ WalkSubdir
    \/ ScanFile
    \/ ScanReturn
    \/ MainNoFiles
    \/ CreateExcelReport

Spec == Init /\ [][Next]_vars

----------------------------------------------------------------------------
(* Properties.  Helper notions used by the statements below. *)

IsScored(info) == "page_count" \in DOMAIN info /\ "points" \in DOMAIN info

\* the walked files whose suffix is pdf, dgn or dwg in any letter case
Matching ==
    {i \in 1..Len(walked) :
        walked[i].file.suffix \in {".pdf", ".PDF", ".dgn", ".DGN", ".dwg", ".DWG"}}

IsPdfFile(i) == walked[i].file.suffix \in {".pdf", ".PDF"}

\* the records made for the i-th walked file
RecordsOf(i) ==
    {k \in 1..Len(file_info_list) :
        file_info_list[k].path = <<walked[i].dir, <<i, walked[i].file.suffix>>>>}

TypeName(suffix) ==
    IF suffix \in {".pdf", ".PDF"} THEN "PDF"
    ELSE IF suffix \in {".dgn", ".DGN"} THEN "DGN"
    ELSE "DWG"

\* the scan was cut short by an os.stat error on the last walked file
StatAborted ==
    /\ walked # <<>>
    /\ Len(walked) \in Matching
    /\ ~walked[Len(walked)].file.stat.ok

\* C1: for every p >= 0 in hundredths of a page, calculate_pdf_points(p) is 10
\* when p <= 3 and 10 + (p - 3) * 3 when p > 3; p = 0 and p = 3 give 10,
\* p = 3.01 gives 10.03 and p = 16 gives 49.
C1_PointsFormula ==
    (call.fn = "calculate_pdf_points" /\ call.done) =>
        /\ (call.arg <= 300 => call.ret = 1000)
        /\ (call.arg > 300 => call.ret = 1000 + (call.arg - 300) * 3)
        /\ (call.arg = 0 => call.ret = 1000)
        /\ (call.arg = 300 => call.ret = 1000)
        /\ (call.arg = 301 => call.ret = 1003)
        /\ (call.arg = 1600 => call.ret = 4900)

C1_Witness ==
    /\ call.fn = "calculate_pdf_points"
    /\ call.done
    /\ call.arg = 301
    /\ call.ret = 1003

C3_DrawingTariff ==
    \A k \in 1..Len(file_info_list) :
        LET info == file_info_list[k]
        IN  info.type \in {"DWG", "DGN"} =>
              /\ info.page_count = 16
              /\ info.points = 4900
              /\ "a4_pages" \notin DOMAIN info
              /\ info.points = calculate_pdf_points(1600)

C3_Witness ==
    /\ Len(file_info_list) = 2
    /\ file_info_list[1].type = "DWG"
    /\ file_info_list[2].type = "DGN"
    /\ file_info_list[1].size_bytes # file_info_list[2].size_bytes
    /\ file_info_list[1].points = 4900
    /\ file_info_list[2].points = 4900

\* the pages' areas min(w,h) * max(w,h) in quarter square millimetres, added up
\* (a box unit is 1.5 mm)
RECURSIVE QuarterMm2(_)
QuarterMm2(pages) ==
    IF pages = <<>> THEN 0
    ELSE 9 * Min(pages[1][1], pages[1][2]) * Max(pages[1][1], pages[1][2])
            + QuarterMm2(Tail(pages))

AllPages(pages, boxes) == \A i \in 1..Len(pages) : pages[i] \in boxes

\* C4: for a readable PDF get_pdf_a4_pages returns the number of pages and the
\* sum over the pages of min(w,h) * max(w,h) / 62370 (millimetres), rounded to
\* two decimals once, after the summation: pages of A4 size count 1.00 each,
\* of double the area 2.00, of half the area 0.50, and twenty pages of twice
\* A4 give a4_pages 40.00 and 121 points.
C4_A4Pages ==
    (call.fn = "get_pdf_a4_pages" /\ call.done /\ call.arg.readable) =>
        LET pages == call.arg.pages
            n == Len(pages)
        IN  /\ call.ret[1] = n
            /\ 2 * Abs(call.ret[2] * (4 * 62370) - 100 * QuarterMm2(pages)) <= 4 * 62370
            /\ AllPages(pages, {<<140, 198>>, <<198, 140>>}) => call.ret[2] = 100 * n
            /\ AllPages(pages, {<<198, 280>>}) => call.ret[2] = 200 * n
            /\ AllPages(pages, {<<99, 140>>}) => call.ret[2] = 50 * n
            /\ (n = 20 /\ AllPages(pages, {<<198, 280>>})) =>
                 /\ call.ret[2] = 4000
                 /\ calculate_pdf_points(call.ret[2]) = 12100

C4_Witness ==
    /\ call.fn = "get_pdf_a4_pages"
    /\ call.done
    /\ call.arg.readable
    /\ Len(call.arg.pages) = 20
    /\ AllPages(call.arg.pages, {<<198, 280>>})
    /\ call.ret = <<20, 4000>>

RECURSIVE PointsUpTo(_)
PointsUpTo(n) == IF n = 0 THEN 0 ELSE PointsUpTo(n - 1) + file_info_list[n].points

RECURSIVE BytesUpTo(_)
BytesUpTo(n) == IF n = 0 THEN 0 ELSE BytesUpTo(n - 1) + file_info_list[n].size_bytes

\* C5: in a written report the grand-total points, in the total row and in the
\* summary cell, are the sum of the per-file points, and the grand-total size in
\* MB is within 0.01 of the sum of the per-file size_bytes converted to MB.
C5_GrandTotals ==
    report # <<>> =>
        LET n == Len(file_info_list)
        IN  /\ n > 0
            /\ report[1].total.points = PointsUpTo(n)
            /\ report[1].summary = PointsUpTo(n)
            /\ Abs(report[1].total.size_mb * 1048576 - 100 * BytesUpTo(n)) <= 1048576

C5_Witness ==
    /\ report # <<>>
    /\ Len(file_info_list) = 2
    /\ file_info_list[1].points = 1003
    /\ file_info_list[2].points = 4900
    /\ report[1].summary = 5903
    /\ report[1].total.size_mb * 1048576 # 100 * BytesUpTo(2)

\* C6: when scan_directory returns, the list holds exactly one record for every
\* walked file, in the root or below it, whose suffix is pdf, dgn or dwg in any
\* letter case, none for any other file, and each record's type is the suffix
\* in upper case.
C6_ExactlyMatchingFiles ==
    pc = "scanned" =>
        /\ \A i \in Matching :
             /\ Cardinality(RecordsOf(i)) = 1
             /\ \A k \in RecordsOf(i) :
                  file_info_list[k].type = TypeName(walked[i].file.suffix)
        /\ \A i \in (1..Len(walked)) \ Matching : RecordsOf(i) = {}
        /\ Len(file_info_list) = Cardinality(Matching)

C6_Witness ==
    /\ pc = "scanned"
    /\ Len(walked) = 2
    /\ walked[1].file.suffix = ".txt"
    /\ walked[2].file.suffix = ".PDF"
    /\ walked[2].dir = "root/sub"
    /\ Len(file_info_list) = 1
    /\ file_info_list[1].type = "PDF"

C8_NotADirectory ==
    /\ target_isdir = "no" =>
         /\ pc = "exit"
         /\ exitCode = <<1>>
         /\ walked = <<>>
         /\ file_info_list = <<>>
         /\ report = <<>>
         /\ report_calls = 0
    /\ pc \in {"walk", "scanned"} => target_isdir = "yes"

C8_Witness ==
    /\ target_isdir = "no"
    /\ pc = "exit"
    /\ exitCode = <<1>>

\* C9: a scan of an existing directory that is empty or holds only non-matching
\* files yields no record, create_excel_report is not called, no report is
\* written and the process ends with exit code 0; a report is written only
\* when there is at least one record.
C9_NoMatchingFiles ==
    /\ (target_isdir = "yes" /\ Matching = {}) =>
         /\ file_info_list = <<>>
         /\ report_calls = 0
         /\ report = <<>>
         /\ pc = "exit" => exitCode = <<0>>
    /\ (report # <<>> \/ report_calls > 0) => file_info_list # <<>>

C9_Witness ==
    /\ pc = "exit"
    /\ exitCode = <<0>>
    /\ Len(walked) = 2
    /\ Matching = {}
    /\ report = <<>>
    /\ report_calls = 0

\* C10 as stated: the scan completes before scoring: once a record has been
\* scored, no further file is scanned.
C10_ScanBeforeScoring ==
    [][file_info_list # <<>> => walked' = walked]_vars

\* C10 amended: the run is sequential, but scanning and scoring are one pass:
\* each record is appended already scored in the step that scans its file.
\* That pass completes before reporting: create_excel_report is called at most
\* once, only after scan_directory returned, and the report it writes holds the
\* full list, every record of which has page_count and points.
C10_ScoredWhileScannedThenReported ==
    [][ /\ file_info_list' # file_info_list =>
             /\ pc = "walk"
             /\ Len(walked') = Len(walked) + 1
             /\ Len(file_info_list') = Len(file_info_list) + 1
             /\ SubSeq(file_info_list', 1, Len(file_info_list)) = file_info_list
             /\ IsScored(file_info_list'[Len(file_info_list')])
        /\ report_calls' # report_calls =>
             /\ pc = "scanned"
             /\ report_calls = 0
             /\ report_calls' = 1
             /\ \A k \in 1..Len(file_info_list) : IsScored(file_info_list[k])
             /\ report' # <<>> =>
                  /\ Len(report'[1].rows) = Len(file_info_list)
                  /\ \A k \in 1..Len(file_info_list) :
                       /\ report'[1].rows[k].path = file_info_list[k].path
                       /\ report'[1].rows[k].page_count = file_info_list[k].page_count
                       /\ report'[1].rows[k].points = file_info_list[k].points
        /\ report' # report => report_calls' # report_calls
      ]_vars

C10_Witness ==
    /\ pc = "exit"
    /\ report_calls = 1
    /\ report # <<>>
    /\ Len(walked) = 2
    /\ Len(file_info_list) = 2
    /\ Len(report[1].rows) = 2

=============================================================================
